---- MODULE Spec2Model ----
(***************************************************************************)
(* A model of the resilient request executor and the long-running          *)
(* operation poller of the Zerops API client (internal/api/retry.go and    *)
(* internal/api/client.go).                                                *)
(*                                                                         *)
(* Durations are whole microseconds.  Floating-point factors are kept in   *)
(* tenths (Multiplier 2.0 is 20, JitterFactor 0.1 is 1).  Error values are *)
(* records [src, msg, at]: msg is the text err.Error() returns, src says   *)
(* where the value was made and at is the attempt index that made it.      *)
(***************************************************************************)
EXTENDS Integers, Sequences, FiniteSets, TLC

VARIABLES
    retryConfig,   \* Client.retryConfig
    url,           \* c.baseURL + path of the logical call
    reqBody,       \* the body argument: "nil" or "unmarshalable"
    pc,            \* position of doRequestWithRetry
    config,        \* local variable config
    attempt,       \* loop variable attempt
    err,           \* local variable err of the current attempt
    resp,          \* local variable resp of the current attempt (<<>> is nil)
    lastErr,       \* local variable lastErr
    delay,         \* local variable delay
    ctxErr,        \* ctx.Err(): "none" until the context is done
    ctxAtSend,     \* ctx.Err() when the request in flight was handed to httpClient.Do
    ret,           \* the values returned to the caller
    requests,      \* physical requests handed to httpClient.Do by this call
    waited,        \* backoff delays that elapsed in full
    outcome,       \* what the transport gave the last attempt
    allRetryable,  \* every attempt so far was answered with status 429, 502, 503 or 504
    cancelPc,      \* pc at the moment the context became done
    cancelRequests,\* requests at the moment the context became done
    cancelWaited,  \* waited at the moment the context became done
    \* one request followed through its redirects by httpClient.Do
    chain,         \* redirects the server answers before the final response
    location,      \* the Location header of the redirects
    rpc,           \* position of the redirect chain
    via,           \* the requests made so far, oldest first
    hopHeader,     \* Authorization of the newest redirected request before CheckRedirect
    redirectErr,   \* the error CheckRedirect ended the chain with
    \* WaitForProcess
    wpc,           \* position of WaitForProcess
    serverStatus,  \* the status the server holds for the process
    wctx,          \* the context made by context.WithTimeout: "live", or why it is
                   \* done: "timeout" (its own timer), "deadline" or "canceled"
                   \* (the caller's context)
    currentInterval, \* local variable currentInterval
    process,       \* what the newest status fetch returned: [process, err]
    firstFetch,    \* what the immediate status fetch returned
    fetches,       \* calls of GetProcess so far
    waits,         \* the poll intervals waited in full, oldest first
    wret,          \* the values WaitForProcess returned
    final,         \* the final status fetch: how many were started, with which context,
                   \* and what it returned
    change,        \* when the server last changed the status: polls started by then,
                   \* and the position of WaitForProcess
    \* the tools
    toolResult,    \* what HandleAsyncProcess returned
    \* errors.NewAPIError
    statusCode,    \* the statusCode argument
    apiError,      \* the APIError built
    \* ImportProjectServices and the debug log
    debug,         \* Client.debug
    yamlData,      \* the yamlData argument
    dpc,           \* position of ImportProjectServices
    log,           \* what log.Printf wrote, oldest first: the format's label, the
                   \* value handed in, and the text written for it
    sent,          \* the body handed to the server
    dout,          \* what the transport gave the request
    dret,          \* what doRequest returned
    \* several calls of doRequestWithRetry on one Client
    calls,         \* per call: its position and the locals of its goroutine
    concurrent     \* the calls that ran while another call was under way

retryVars == <<retryConfig, url, reqBody, pc, config, attempt, err, resp, lastErr,
               delay, ctxErr, ctxAtSend, ret, requests, waited, outcome,
               allRetryable, cancelPc, cancelRequests, cancelWaited>>

redirectVars == <<chain, location, rpc, via, hopHeader, redirectErr>>

waitVars == <<wpc, serverStatus, wctx, currentInterval, process, firstFetch, fetches,
              waits, wret, final, change>>

toolVars == <<toolResult>>

errorVars == <<statusCode, apiError>>

debugVars == <<debug, yamlData, dpc, log, sent, dout, dret>>

callVars == <<calls, concurrent>>

otherVars == <<toolVars, errorVars, debugVars, callVars>>

vars == <<retryVars, redirectVars, waitVars, otherVars>>

----------------------------------------------------------------------------
(* Bounds of the model *)

\* largest MaxRetries a caller installs
MaxRetriesBound == 2

\* longest redirect chain a server answers with
MaxChain == 12

\* most polls one WaitForProcess call is followed through
MaxPolls == 7

----------------------------------------------------------------------------
(* Text *)

\* strings.Contains(s, substr)
Contains(s, substr) ==
    \E i \in 1..(Len(s) - Len(substr) + 1) : SubSeq(s, i, i + Len(substr) - 1) = substr

\* fmt's %d of a non-negative int
FormatInt(n) == ToString(n)

----------------------------------------------------------------------------
(* utils/mask.go, and the encoding of a string by encoding/json *)

\* the one-character string at position i of s
Ch(s, i) == SubSeq(s, i, i)

\* s holds t at position i
StartsAt(s, i, t) == i + Len(t) - 1 <= Len(s) /\ SubSeq(s, i, i + Len(t) - 1) = t

\* [a-zA-Z0-9]
Alnum ==
    {"a", "b", "c", "d", "e", "f", "g", "h", "i", "j", "k", "l", "m", "n", "o", "p", "q", "r", "s", "t", "u", "v", "w", "x", "y", "z"}
        \cup {"A", "B", "C", "D", "E", "F", "G", "H", "I", "J", "K", "L", "M", "N", "O", "P", "Q", "R", "S", "T", "U", "V", "W", "X", "Y", "Z"}
        \cup {"0", "1", "2", "3", "4", "5", "6", "7", "8", "9"}

\* \w
WordChars == Alnum \cup {"_"}

\* \s
Whitespace == {" ", "\n", "\t", "\r", "\f"}

\* the position after the longest run from position i of characters in class
RECURSIVE RunIn(_, _, _)
RunIn(s, i, class) ==
    IF i <= Len(s) /\ Ch(s, i) \in class THEN RunIn(s, i + 1, class) ELSE i

\* the position after the longest run from position i of characters not in stop
RECURSIVE RunNotIn(_, _, _)
RunNotIn(s, i, stop) ==
    IF i <= Len(s) /\ Ch(s, i) \notin stop THEN RunNotIn(s, i + 1, stop) ELSE i

\* strings.Repeat("*", n)
RECURSIVE Stars(_)
Stars(n) == IF n <= 0 THEN "" ELSE "*" \o Stars(n - 1)

NoMatch == [end |-> 0, text |-> ""]

\* mask.go line 11 and lines 40-45: [a-zA-Z0-9]{20,}
MatchAPIKey(s, i) ==
    LET e == RunIn(s, i, Alnum)
    IN  IF e - i >= 20
            THEN [end |-> e,
                  text |-> SubSeq(s, i, i + 3) \o Stars(e - i - 8) \o SubSeq(s, e - 4, e - 1)]
            ELSE NoMatch

\* mask.go lines 14 and 48: eyJ[a-zA-Z0-9._-]+
MatchJWT(s, i) ==
    LET e == RunIn(s, i + 3, Alnum \cup {".", "_", "-"})
    IN  IF StartsAt(s, i, "eyJ") /\ e > i + 3
            THEN [end |-> e, text |-> "eyJ****"]
            ELSE NoMatch

\* "name"\s*:\s*"[^"]+" at position i, replaced by what stands before the
\* colon and : "****"
MatchQuoted(s, i, name) ==
    LET q     == "\"" \o name \o "\""
        colon == RunIn(s, i + Len(q), Whitespace)
        open  == RunIn(s, colon + 1, Whitespace)
        close == RunNotIn(s, open + 1, {"\""})
    IN  IF /\ StartsAt(s, i, q)
           /\ StartsAt(s, colon, ":")
           /\ StartsAt(s, open, "\"")
           /\ close > open + 1
           /\ StartsAt(s, close, "\"")
            THEN [end |-> close + 1, text |-> SubSeq(s, i, colon - 1) \o ": \"****\""]
            ELSE NoMatch

\* name\s*:\s*[^,}\s]+ at position i, replaced likewise
MatchBare(s, i, name) ==
    LET colon == RunIn(s, i + Len(name), Whitespace)
        from  == RunIn(s, colon + 1, Whitespace)
        e     == RunNotIn(s, from, {",", "}"} \cup Whitespace)
    IN  IF StartsAt(s, i, name) /\ StartsAt(s, colon, ":") /\ e > from
            THEN [end |-> e, text |-> SubSeq(s, i, colon - 1) \o ": \"****\""]
            ELSE NoMatch

\* the position of the first ":" of s from position i, Len(s) + 1 when none
FirstColon(s, i) == RunNotIn(s, i, {":"})

\* mask.go lines 17 and 51-60: "password"\s*:\s*"[^"]+"|password=[^&\s]+
MatchPassword(s, i) ==
    LET quoted == MatchQuoted(s, i, "password")
        e      == RunNotIn(s, i + 9, {"&"} \cup Whitespace)
        colon  == FirstColon(s, i)
    IN  IF quoted # NoMatch THEN quoted
        ELSE IF StartsAt(s, i, "password=") /\ e > i + 9
            THEN [end |-> e,
                  text |-> IF colon < e
                               THEN SubSeq(s, i, colon - 1) \o ": \"****\""
                               ELSE "password=****"]
        ELSE NoMatch

\* mask.go lines 20 and 63: Bearer\s+[\w.-]+
MatchBearer(s, i) ==
    LET from == RunIn(s, i + 6, Whitespace)
        e    == RunIn(s, from, WordChars \cup {".", "-"})
    IN  IF StartsAt(s, i, "Bearer") /\ from > i + 6 /\ e > from
            THEN [end |-> e, text |-> "Bearer ****"]
            ELSE NoMatch

\* mask.go lines 66-76: "field"\s*:\s*"[^"]+"|field\s*:\s*[^,}\s]+
MatchField(s, i, field) ==
    LET quoted == MatchQuoted(s, i, field)
    IN  IF quoted # NoMatch THEN quoted ELSE MatchBare(s, i, field)

\* the match of the pattern of a stage at position i
MatchAt(s, i, stage) ==
    IF stage = "apiKey" THEN MatchAPIKey(s, i)
    ELSE IF stage = "jwt" THEN MatchJWT(s, i)
    ELSE IF stage = "passwordPattern" THEN MatchPassword(s, i)
    ELSE IF stage = "bearer" THEN MatchBearer(s, i)
    ELSE MatchField(s, i, stage)

\* regexp ReplaceAllString(Func): the matches from position i on, leftmost
\* first and not overlapping, replaced
RECURSIVE ReplaceAll(_, _, _)
ReplaceAll(s, i, stage) ==
    LET starts == {j \in i..Len(s) : MatchAt(s, j, stage) # NoMatch}
    IN  IF starts = {} THEN SubSeq(s, i, Len(s))
        ELSE LET j     == CHOOSE k \in starts : \A l \in starts : k <= l
                 found == MatchAt(s, j, stage)
             IN  SubSeq(s, i, j - 1) \o found.text \o ReplaceAll(s, found.end, stage)

\* mask.go lines 23-27
sensitiveFields ==
    <<"password", "secret", "token", "apiKey", "api_key", "private_key", "privateKey",
      "access_token", "accessToken", "refresh_token", "refreshToken", "auth",
      "authorization">>

\* the stages of MaskSensitive in their order; the stage of a sensitive field
\* carries the name of the field
MaskStages == <<"apiKey", "jwt", "passwordPattern", "bearer">> \o sensitiveFields

RECURSIVE MaskFrom(_, _)
MaskFrom(s, n) ==
    IF n > Len(MaskStages) THEN s
    ELSE MaskFrom(ReplaceAll(s, 1, MaskStages[n]), n + 1)

\* mask.go lines 31-79
MaskSensitive(input) == IF input = "" THEN input ELSE MaskFrom(input, 1)

\* encoding/json of a string: quoted, with ", \ and the line break escaped
RECURSIVE EscapeJSON(_, _)
EscapeJSON(s, i) ==
    IF i > Len(s) THEN ""
    ELSE (IF Ch(s, i) = "\"" THEN "\\\""
          ELSE IF Ch(s, i) = "\\" THEN "\\\\"
          ELSE IF Ch(s, i) = "\n" THEN "\\n"
          ELSE Ch(s, i)) \o EscapeJSON(s, i + 1)

\* mask.go lines 82-87
MaskAPIKey(apiKey) ==
    IF Len(apiKey) <= 8 THEN Stars(Len(apiKey))
    ELSE SubSeq(apiKey, 1, 4) \o Stars(Len(apiKey) - 8)
            \o SubSeq(apiKey, Len(apiKey) - 3, Len(apiKey))

----------------------------------------------------------------------------
(* Mutations of the code above, used to show that the properties below     *)
(* depend on it                                                            *)

\* the four retryable status codes with 504 forgotten
retryableStatuses_No504 == {"429", "502", "503"}

\* the timer case taken whatever the context says (a plain sleep)
TimerWins_Sleep(ce) == TRUE

\* the previous attempt's error returned instead of the current one
FailureResult_Stale(e, last) == last

\* status 400 taken for a success
IsErrorStatus_Above400(s) == s > 400

\* the hook leaves the header of the redirected request as it found it
RedirectAuthorization_Keep(req, v) == req.auth

\* ERROR not taken for a failed process
IsFailureStatus_NoError(st) == st \in {"FAILED", "CANCELLED"}

----------------------------------------------------------------------------
(* Errors *)

NoError == [src |-> "nil", msg |-> "", at |-> -1]

\* fmt.Errorf(...) made while attempt a is being handled
AttemptError(m, a) == [src |-> "attempt", msg |-> m, at |-> a]

\* ctx.Err() of a context that is done
ContextErrorText(e) ==
    IF e = "canceled" THEN "context canceled" ELSE "context deadline exceeded"

ContextError(e) == [src |-> "ctx", msg |-> ContextErrorText(e), at |-> -1]

----------------------------------------------------------------------------
(* retry.go *)

DefaultRetryConfig ==
    [MaxRetries |-> 3, BaseDelay |-> 100000, MaxDelay |-> 5000000,
     Multiplier |-> 20, JitterFactor |-> 1]

networkErrors ==
    {"connection refused", "connection reset", "i/o timeout",
     "temporary failure", "no such host", "network is unreachable"}

retryableStatuses == {"429", "502", "503", "504"}

isRetryableError(e) ==
    /\ e # NoError
    /\ \/ \E pattern \in networkErrors : Contains(e.msg, pattern)
       \/ \E s \in retryableStatuses : Contains(e.msg, s)

RECURSIVE Pow10(_)
Pow10(n) == IF n = 0 THEN 1 ELSE 10 * Pow10(n - 1)

RECURSIVE PowInt(_, _)
PowInt(b, n) == IF n = 0 THEN 1 ELSE b * PowInt(b, n - 1)

Min(a, b) == IF a < b THEN a ELSE b

\* integer part of n / d, rounded toward zero as time.Duration(float64) does
Trunc(n, d) == IF n >= 0 THEN n \div d ELSE -((-n) \div d)

RECURSIVE GCD(_, _)
GCD(a, b) == IF b = 0 THEN a ELSE GCD(b, a % b)

\* float64 values are kept as fractions <<numerator, denominator>> in lowest
\* terms, the denominator positive
Frac(n, d) == LET g == GCD(n, d) IN <<n \div g, d \div g>>

\* lines 84-86: the cap
CapAt(f, max) == IF f[1] > max * f[2] THEN <<max, 1>> ELSE f

\* line 81: float64(BaseDelay) * math.Pow(Multiplier, attempt), not capped
RECURSIVE Grown(_, _)
Grown(a, cfg) ==
    IF a = 0 THEN <<cfg.BaseDelay, 1>>
    ELSE LET f == Grown(a - 1, cfg)
         IN  Frac(f[1] * cfg.Multiplier, f[2] * 10)

\* lines 81-86: the capped backoff.  math.Pow does not wrap around, so with
\* Multiplier >= 1 a product that went above MaxDelay stays above it and the
\* cap applies at every larger attempt
RECURSIVE CappedBackoff(_, _)
CappedBackoff(a, cfg) ==
    IF cfg.Multiplier < 10 THEN CapAt(Grown(a, cfg), cfg.MaxDelay)
    ELSE IF a = 0 THEN CapAt(<<cfg.BaseDelay, 1>>, cfg.MaxDelay)
    ELSE LET f == CappedBackoff(a - 1, cfg)
         IN  IF f = <<cfg.MaxDelay, 1>> THEN f
             ELSE CapAt(Frac(f[1] * cfg.Multiplier, f[2] * 10), cfg.MaxDelay)

\* line 92: time.Duration(x) of the float64 x = n * k / d, n >= 0 and d > 0:
\* the fraction is dropped, toward zero
TruncMulDiv(n, k, d) ==
    IF k >= 0 THEN k * (n \div d) + (k * (n % d)) \div d
    ELSE -((-k) * (n \div d) + ((-k) * (n % d)) \div d)

\* a jitter twice as wide
calculateBackoff_WideJitter(a, cfg, r10) ==
    LET backoff == CappedBackoff(a, cfg)
    IN  TruncMulDiv(backoff[1], 100 + 2 * cfg.JitterFactor * (2 * r10 - 10),
                    100 * backoff[2])

\* calculateBackoff(attempt, config) for the draw r10 / 10 of rand.Float64():
\* backoff + backoff * JitterFactor * (2 * rand - 1), converted to a Duration
calculateBackoff(a, cfg, r10) ==
    LET backoff == CappedBackoff(a, cfg)
    IN  TruncMulDiv(backoff[1], 100 + cfg.JitterFactor * (2 * r10 - 10),
                    100 * backoff[2])

----------------------------------------------------------------------------
(* What the transport can give one physical attempt *)

NoBody == [bytes |-> "", valid |-> FALSE, code |-> "", message |-> ""]

\* response bodies: the bytes, and what json.Unmarshal into ErrorResponse yields
Bodies ==
    { [bytes |-> "not found", valid |-> FALSE, code |-> "", message |-> ""],
      [bytes |-> "{\"status\":\"RUNNING\"}", valid |-> TRUE, code |-> "", message |-> ""],
      [bytes |-> "{\"error\":{\"code\":\"proxyError\",\"message\":\"upstream sent 503\"}}",
       valid |-> TRUE, code |-> "proxyError", message |-> "upstream sent 503"] }

Statuses == {200, 400, 404, 429, 500, 502, 503, 504, 599}

\* failures of httpClient.Do that have nothing to do with the caller's context
TransportDetails == {"dial tcp 10.0.0.1:443: connect: connection refused", "EOF"}

RetryableStatusCodes == {429, 502, 503, 504}

\* the transport delivered a response with one of the four retryable status codes
HasRetryableStatus(o) == o.kind = "response" /\ o.status \in RetryableStatusCodes

NoOutcome == [kind |-> "none", status |-> 0, body |-> NoBody, detail |-> ""]

Response(s, b) == [kind |-> "response", status |-> s, body |-> b, detail |-> ""]

Transport(d) == [kind |-> "transport", status |-> 0, body |-> NoBody, detail |-> d]

ReadFailure(s) == [kind |-> "readfail", status |-> s, body |-> NoBody, detail |-> "unexpected EOF"]

MarshalFailure ==
    [kind |-> "marshal", status |-> 0, body |-> NoBody,
     detail |-> "json: unsupported type: chan int"]

LiveOutcomes ==
    {Response(s, b) : s \in Statuses, b \in Bodies}
        \cup {Transport(d) : d \in TransportDetails}
        \cup {ReadFailure(200)}

\* the outcomes of a request sent with context state atSend, the context being
\* in state now when the outcome is produced
Outcomes(atSend, now) ==
    IF atSend # "none" THEN {Transport(ContextErrorText(atSend))}
    ELSE IF now # "none" THEN LiveOutcomes \cup {Transport(ContextErrorText(now))}
    ELSE LiveOutcomes

----------------------------------------------------------------------------
(* client.go: doRequest *)

\* (*url.Error).Error() of a failed GET
UrlErrorText(u, detail) == "Get \"" \o u \o "\": " \o detail

IsErrorStatus(s) == s >= 400

\* the (resp, err) pair doRequest returns for outcome o during attempt a
doRequest(o, u, a) ==
    IF o.kind = "marshal" THEN
        [resp |-> <<>>,
         err |-> AttemptError("failed to marshal request body: " \o o.detail, a)]
    ELSE IF o.kind = "transport" THEN
        [resp |-> <<>>,
         err |-> AttemptError("request failed: " \o UrlErrorText(u, o.detail), a)]
    ELSE IF o.kind = "readfail" THEN
        [resp |-> <<>>,
         err |-> AttemptError("failed to read response: " \o o.detail, a)]
    ELSE IF IsErrorStatus(o.status) THEN
        IF o.body.valid /\ o.body.code # "" THEN
            [resp |-> <<>>,
             err |-> AttemptError(FormatInt(o.status) \o ": " \o o.body.code
                                    \o " - " \o o.body.message, a)]
        ELSE
            [resp |-> <<>>,
             err |-> AttemptError(FormatInt(o.status) \o ": " \o o.body.bytes, a)]
    ELSE [resp |-> <<o.body.bytes>>, err |-> NoError]

----------------------------------------------------------------------------
(* retry.go: doRequestWithRetry *)

\* lines 34-37: the policy the loop runs under
EffectiveConfig(rc) == IF rc.MaxRetries = 0 THEN DefaultRetryConfig ELSE rc

\* line 41: the loop condition
LoopContinues(a, cfg) == a <= cfg.MaxRetries

\* the attempt limit read from the client at every attempt
ReturnsFailure_Live(e, a, cfg) == ~isRetryableError(e) \/ a = retryConfig.MaxRetries

\* line 51: the failed attempt ends the call
ReturnsFailure(e, a, cfg) == ~isRetryableError(e) \/ a = cfg.MaxRetries

\* line 52: the error handed back when a failed attempt ends the call
FailureResult(e, last) == e

\* line 64: the timer case of the select is taken only by a call still parked
\* in the select, that is, one the context has not woken first
TimerWins(ce) == ce = "none"

\* the draws of rand.Float64() the model takes, in tenths (the draw is below 1)
RandDraws == {0, 5, 9}

\* the configurations a caller can construct the client with (NewClient with
\* opts.RetryConfig nil or set)
RetryConfigs ==
    {[DefaultRetryConfig EXCEPT !.MaxRetries = n] : n \in -1..MaxRetriesBound}
        \cup {DefaultRetryConfig}

Urls == {"https://api.zerops.io/process/Qx7", "https://api.zerops.io/process/a503"}

NoReturn == [resp |-> <<>>, err |-> NoError]

InitRetry ==
    /\ retryConfig \in RetryConfigs
    /\ url \in Urls
    /\ reqBody \in {"nil", "unmarshalable"}
    /\ pc = "idle"
    /\ config = DefaultRetryConfig
    /\ attempt = 0
    /\ err = NoError
    /\ resp = <<>>
    /\ lastErr = NoError
    /\ delay = 0
    /\ ctxErr = "none"
    /\ ctxAtSend = "none"
    /\ ret = NoReturn
    /\ requests = 0
    /\ waited = 0
    /\ outcome = NoOutcome
    /\ cancelPc = "none"
    /\ cancelRequests = 0
    /\ cancelWaited = 0
    /\ allRetryable = TRUE

\* lines 33-39: entry
Call ==
    /\ pc = "idle"
    /\ config' = EffectiveConfig(retryConfig)
    /\ lastErr' = NoError
    /\ attempt' = 0
    /\ pc' = "loop"
    /\ UNCHANGED <<allRetryable, retryConfig, url, reqBody, err, resp, delay, ctxErr, ctxAtSend,
                   ret, requests, waited, outcome, cancelPc, cancelRequests, cancelWaited>>
    /\ UNCHANGED <<redirectVars, waitVars, otherVars>>

\* lines 45-66: what follows doRequest returning r for outcome o
AfterRequest(o, r) ==
    /\ outcome' = o
    /\ allRetryable' = (allRetryable /\ HasRetryableStatus(o))
    /\ err' = r.err
    /\ resp' = r.resp
    /\ IF r.err = NoError THEN
           /\ ret' = [resp |-> r.resp, err |-> NoError]
           /\ pc' = "done"
           /\ UNCHANGED <<lastErr, delay>>
       ELSE IF ReturnsFailure(r.err, attempt, config) THEN
           /\ ret' = [resp |-> <<>>, err |-> FailureResult(r.err, lastErr)]
           /\ pc' = "done"
           /\ UNCHANGED <<lastErr, delay>>
       ELSE
           /\ lastErr' = r.err
           /\ \E r10 \in RandDraws : delay' = calculateBackoff(attempt, config, r10)
           /\ pc' = "wait"
           /\ UNCHANGED ret

\* lines 41-43 and client.go 80-106: the attempt hands its request to the transport
Send ==
    /\ pc = "loop"
    /\ LoopContinues(attempt, config)
    /\ reqBody = "nil"
    /\ requests' = requests + 1
    /\ ctxAtSend' = ctxErr
    /\ pc' = "inflight"
    /\ UNCHANGED <<allRetryable, retryConfig, url, reqBody, config, attempt, err, resp, lastErr,
                   delay, ctxErr, ret, waited, outcome, cancelPc, cancelRequests, cancelWaited>>
    /\ UNCHANGED <<redirectVars, waitVars, otherVars>>

\* client.go 81-85: the body cannot be serialised, no request is sent
MarshalFails ==
    /\ pc = "loop"
    /\ LoopContinues(attempt, config)
    /\ reqBody = "unmarshalable"
    /\ AfterRequest(MarshalFailure, doRequest(MarshalFailure, url, attempt))
    /\ UNCHANGED <<retryConfig, url, reqBody, config, attempt, ctxErr, ctxAtSend,
                   requests, waited, cancelPc, cancelRequests, cancelWaited>>
    /\ UNCHANGED <<redirectVars, waitVars, otherVars>>

\* client.go 106-135 and retry.go 45-66: the transport answers
Receive ==
    /\ pc = "inflight"
    /\ \E o \in Outcomes(ctxAtSend, ctxErr) : AfterRequest(o, doRequest(o, url, attempt))
    /\ UNCHANGED <<retryConfig, url, reqBody, config, attempt, ctxErr, ctxAtSend,
                   requests, waited, cancelPc, cancelRequests, cancelWaited>>
    /\ UNCHANGED <<redirectVars, waitVars, otherVars>>

\* lines 64-66 and 41: the delay elapses, the loop goes on
WaitElapsed ==
    /\ pc = "wait"
    /\ TimerWins(ctxErr)
    /\ waited' = waited + 1
    /\ attempt' = attempt + 1
    /\ pc' = "loop"
    /\ UNCHANGED <<allRetryable, retryConfig, url, reqBody, config, err, resp, lastErr, delay,
                   ctxErr, ctxAtSend, ret, requests, outcome, cancelPc, cancelRequests, cancelWaited>>
    /\ UNCHANGED <<redirectVars, waitVars, otherVars>>

\* lines 62-63: the context is done
WaitCancelled ==
    /\ pc = "wait"
    /\ ctxErr # "none"
    /\ ret' = [resp |-> <<>>, err |-> ContextError(ctxErr)]
    /\ pc' = "done"
    /\ UNCHANGED <<allRetryable, retryConfig, url, reqBody, config, attempt, err, resp, lastErr,
                   delay, ctxErr, ctxAtSend, requests, waited, outcome,
                   cancelPc, cancelRequests, cancelWaited>>
    /\ UNCHANGED <<redirectVars, waitVars, otherVars>>

\* line 75: the loop ran out
LoopExit ==
    /\ pc = "loop"
    /\ ~LoopContinues(attempt, config)
    /\ ret' = [resp |-> <<>>, err |-> lastErr]
    /\ pc' = "done"
    /\ UNCHANGED <<allRetryable, retryConfig, url, reqBody, config, attempt, err, resp, lastErr,
                   delay, ctxErr, ctxAtSend, requests, waited, outcome,
                   cancelPc, cancelRequests, cancelWaited>>
    /\ UNCHANGED <<redirectVars, waitVars, otherVars>>

\* the caller cancels the context, or its deadline passes
Cancel ==
    /\ pc # "done"
    /\ ctxErr = "none"
    /\ ctxErr' \in {"canceled", "deadline"}
    /\ cancelPc' = pc
    /\ cancelRequests' = requests
    /\ cancelWaited' = waited
    /\ UNCHANGED <<retryConfig, url, reqBody, pc, config, attempt, err, resp, lastErr,
                   delay, ctxAtSend, ret, requests, waited, outcome, allRetryable>>
    /\ UNCHANGED <<redirectVars, waitVars, otherVars>>

NextRetry ==
    \/ Call
    \/ Send
    \/ MarshalFails
    \/ Receive
    \/ WaitElapsed
    \/ WaitCancelled
    \/ LoopExit
    \/ Cancel

\* the policies a caller hands to WithRetry
PolicyConfigs ==
    {[DefaultRetryConfig EXCEPT !.MaxRetries = 0],
     [DefaultRetryConfig EXCEPT !.MaxRetries = 1],
     [DefaultRetryConfig EXCEPT !.MaxRetries = 2, !.BaseDelay = 200000,
                                !.JitterFactor = 0]}

\* lines 136-140: WithRetry on the client a call of doRequestWithRetry is
\* running on, from another goroutine, after the call has read its policy
WithRetry ==
    /\ pc \in {"loop", "inflight", "wait"}
    /\ \E new \in PolicyConfigs :
           /\ new # retryConfig
           /\ retryConfig' = new
    /\ UNCHANGED <<url, reqBody, pc, config, attempt, err, resp, lastErr, delay,
                   ctxErr, ctxAtSend, ret, requests, waited, outcome, allRetryable,
                   cancelPc, cancelRequests, cancelWaited>>
    /\ UNCHANGED <<redirectVars, waitVars, otherVars>>

\* what an unsynchronised copy of the struct can read while WithRetry stores
\* new over old: every field from the one or from the other
TornReads(old, new) ==
    {[MaxRetries   |-> a.MaxRetries,
      BaseDelay    |-> b.BaseDelay,
      MaxDelay     |-> c.MaxDelay,
      Multiplier   |-> d.Multiplier,
      JitterFactor |-> e.JitterFactor] :
        a \in {old, new}, b \in {old, new}, c \in {old, new},
        d \in {old, new}, e \in {old, new}}

\* line 34 racing with line 138: the call reads its policy while WithRetry
\* stores another one
CallDuringWithRetry ==
    /\ pc = "idle"
    /\ \E new \in PolicyConfigs :
           /\ new # retryConfig
           /\ retryConfig' = new
           /\ \E read \in TornReads(retryConfig, new) :
                  config' = EffectiveConfig(read)
    /\ lastErr' = NoError
    /\ attempt' = 0
    /\ pc' = "loop"
    /\ UNCHANGED <<allRetryable, url, reqBody, err, resp, delay, ctxErr, ctxAtSend,
                   ret, requests, waited, outcome, cancelPc, cancelRequests, cancelWaited>>
    /\ UNCHANGED <<redirectVars, waitVars, otherVars>>

\* the largest attempt index calculateBackoff is applied to
MaxAttemptIndex == 40

\* policies calculateBackoff is applied to, in Duration units: positive
\* BaseDelay, MaxDelay >= BaseDelay, Multiplier 1.5 or 2.0, JitterFactor
\* 0, 0.1, 0.5 or 1
BackoffPolicies ==
    {[MaxRetries |-> 3, BaseDelay |-> d[1], MaxDelay |-> d[2],
      Multiplier |-> mu, JitterFactor |-> j] :
        d \in {<<3, 40>>, <<100, 100>>, <<1000, 50000>>},
        mu \in {15, 20},
        j \in {0, 1, 5, 10}}

\* line 58: calculateBackoff applied to an attempt index and a policy
Backoff ==
    /\ pc = "backoff"
    /\ \E r10 \in RandDraws : delay' = calculateBackoff(attempt, config, r10)
    /\ pc' = "backoffDone"
    /\ UNCHANGED <<allRetryable, retryConfig, url, reqBody, config, attempt, err, resp,
                   lastErr, ctxErr, ctxAtSend, ret, requests, waited, outcome,
                   cancelPc, cancelRequests, cancelWaited>>
    /\ UNCHANGED <<redirectVars, waitVars, otherVars>>

NextPolicy ==
    \/ NextRetry
    \/ WithRetry
    \/ CallDuringWithRetry

----------------------------------------------------------------------------
(* client.go: the CheckRedirect hook of NewClient, called by httpClient.Do  *)
(* for every redirect response before the redirected request is sent       *)

ApiKeys == {"k1", "k2"}

\* line 99: the header doRequest sets on the first request
AuthorizationOf(key) == "Bearer " \o key

\* what net/http leaves in the Authorization header of a redirected request
\* before it calls CheckRedirect: the first request's value, or nothing when
\* it drops the sensitive headers
HopHeaders(first) == {first.auth, ""}

Locations == {"https://api.zerops.io/moved", "https://cdn504.zerops.io/moved"}

\* lines 60-62: the Authorization header of req after the hook
RedirectAuthorization(req, v) == IF Len(v) > 0 THEN v[1].auth ELSE req.auth

\* lines 64-66: the hook refuses the redirect
StopsRedirect(v) == Len(v) >= 10

\* line 108 around the error of the hook
RedirectError(loc) ==
    AttemptError("request failed: " \o UrlErrorText(loc, "stopped after 10 redirects"), 0)

IdleRedirect ==
    /\ chain = 0
    /\ location = "https://api.zerops.io/moved"
    /\ rpc = "idle"
    /\ via = <<>>
    /\ hopHeader = ""
    /\ redirectErr = NoError

InitRedirect ==
    /\ chain \in 0..MaxChain
    /\ location \in Locations
    /\ rpc = "idle"
    /\ via = <<>>
    /\ hopHeader = ""
    /\ redirectErr = NoError

\* lines 94-106: the first request of the chain
FirstRequest ==
    /\ rpc = "idle"
    /\ \E key \in ApiKeys : via' = <<[auth |-> AuthorizationOf(key)]>>
    /\ rpc' = "sent"
    /\ UNCHANGED <<chain, location, hopHeader, redirectErr>>
    /\ UNCHANGED <<retryVars, waitVars, otherVars>>

\* lines 54-68: the server redirects the newest request and the hook is asked
Redirect ==
    /\ rpc = "sent"
    /\ Len(via) <= chain
    /\ \E h \in HopHeaders(via[1]) :
           LET req == [auth |-> RedirectAuthorization([auth |-> h], via)]
           IN  /\ hopHeader' = h
               /\ IF StopsRedirect(via)
                      THEN /\ redirectErr' = RedirectError(location)
                           /\ rpc' = "failed"
                           /\ via' = via
                      ELSE /\ via' = Append(via, req)
                           /\ UNCHANGED <<rpc, redirectErr>>
    /\ UNCHANGED <<chain, location>>
    /\ UNCHANGED <<retryVars, waitVars, otherVars>>

\* the server answers the newest request with something that is no redirect
FinalResponse ==
    /\ rpc = "sent"
    /\ Len(via) = chain + 1
    /\ rpc' = "answered"
    /\ UNCHANGED <<chain, location, via, hopHeader, redirectErr>>
    /\ UNCHANGED <<retryVars, waitVars, otherVars>>

NextRedirect ==
    \/ FirstRequest
    \/ Redirect
    \/ FinalResponse

----------------------------------------------------------------------------
(* client.go: WaitForProcess *)

minInterval == 500000

maxInterval == 5000000

\* the multiplier 1.5, in tenths
multiplier == 15

ProcessStatuses ==
    {"PENDING", "RUNNING", "SUCCESS", "FINISHED", "FAILED", "ERROR", "CANCELLED",
     "CANCELED", "ROLLBACKING"}

\* FINISHED left out of the first case of the switch
IsSuccessStatus_OnlySuccess(st) == st = "SUCCESS"

\* lines 616 and 640
IsSuccessStatus(st) == st \in {"SUCCESS", "FINISHED"}

\* lines 618 and 642
IsFailureStatus(st) == st \in {"FAILED", "ERROR", "CANCELLED"}

NilProcess == [nil |-> TRUE, Status |-> ""]

ProcessWith(st) == [nil |-> FALSE, Status |-> st]

ProcessID == "p1"

\* errors of GetProcess: of doRequestWithRetry, or of json.Unmarshal
FetchErrors ==
    {AttemptError("503: service unavailable", 0),
     AttemptError("404: processNotFound - Process not found", 0),
     AttemptError("failed to unmarshal process response: unexpected end of JSON input", 0)}

\* what a call of GetProcess can return when its context is in state c at the
\* return: a done context fails the call unless the answer was already there
FetchResults(c, st) ==
    {[process |-> ProcessWith(st), err |-> NoError]}
        \cup {[process |-> NilProcess, err |-> e] : e \in FetchErrors}
        \cup (IF c = "live" THEN {}
              ELSE {[process |-> NilProcess,
                     err |-> AttemptError("request failed: "
                               \o UrlErrorText("https://api.zerops.io/process/" \o ProcessID,
                                               ContextErrorText(c)), 0)]})

NoFetch == [process |-> NilProcess, err |-> NoError]

\* last: what the latest status fetch before the final one returned
NoFinal == [fetches |-> 0, ctx |-> "none", result |-> NoFetch, last |-> NoFetch]

NoChange == [polls |-> 0, pc |-> "none"]

\* a final fetch that no timeout ever ends
FinalFetchResults_Hangs(st) == {}

\* line 627: what GetProcess(context.Background(), processID) can return; the
\* request carries no deadline of the caller and ends by the Timeout of the
\* http.Client (lines 37-40 and 53) at the latest
FinalFetchResults(st) == FetchResults("live", st)

\* line 619 and 643
ProcessFailedError(st) ==
    AttemptError("process " \o ProcessID \o " failed with status: " \o st, 0)

\* line 629
TimeoutStatusError(st) ==
    AttemptError("timeout waiting for process " \o ProcessID
                    \o " (last status: " \o st \o ")", 0)

\* line 631
TimeoutError(c) ==
    AttemptError("timeout waiting for process " \o ProcessID \o ": "
                    \o ContextErrorText(c), 0)

\* line 636
PollError(e) == AttemptError("failed to get process status: " \o e.msg, 0)

\* the interval never grown
NextInterval_Constant(cur) == cur

\* lines 647-650
NextInterval(cur) ==
    LET grown == Trunc(cur * multiplier, 10)
    IN  IF grown > maxInterval THEN maxInterval ELSE grown

IdleWait ==
    /\ wpc = "idle"
    /\ serverStatus = "PENDING"
    /\ wctx = "live"
    /\ currentInterval = minInterval
    /\ process = NoFetch
    /\ firstFetch = NoFetch
    /\ fetches = 0
    /\ waits = <<>>
    /\ wret = NoFetch
    /\ final = NoFinal
    /\ change = NoChange

InitWait ==
    /\ wpc = "idle"
    /\ serverStatus \in ProcessStatuses
    /\ wctx = "live"
    /\ currentInterval = minInterval
    /\ process = NoFetch
    /\ firstFetch = NoFetch
    /\ fetches = 0
    /\ waits = <<>>
    /\ wret = NoFetch
    /\ final = NoFinal
    /\ change = NoChange

\* lines 602-613: entry, and the immediate status fetch is started
WaitForProcess ==
    /\ wpc = "idle"
    /\ currentInterval' = minInterval
    /\ fetches' = fetches + 1
    /\ wpc' = "first"
    /\ UNCHANGED <<serverStatus, wctx, process, firstFetch, waits, wret>>
    /\ UNCHANGED <<final, change>>
    /\ UNCHANGED <<retryVars, redirectVars, otherVars>>

\* a closed switch: every status but the two known pending ones ends the wait
Terminal_Closed(st) == st \notin {"PENDING", "RUNNING"}

\* lines 615-620 and 639-644: the switch on the status of a fetched process;
\* TRUE when it returned
Terminal(st) == IsSuccessStatus(st) \/ IsFailureStatus(st)

\* a failed process handed back without an error
TerminalReturn_NilError(st) == [process |-> ProcessWith(st), err |-> NoError]

TerminalReturn(st) ==
    IF IsSuccessStatus(st)
        THEN [process |-> ProcessWith(st), err |-> NoError]
        ELSE [process |-> ProcessWith(st), err |-> ProcessFailedError(st)]

\* an immediate fetch whose error ends the call
FirstFetchEnds_OnError(r) == r.err # NoError \/ Terminal(r.process.Status)

\* lines 614-621: the immediate fetch ends the call only when it gave no
\* error and the switch returned
FirstFetchEnds(r) == r.err = NoError /\ Terminal(r.process.Status)

\* lines 613-621: the immediate fetch returns
FirstFetchReturns ==
    /\ wpc = "first"
    /\ \E r \in FetchResults(wctx, serverStatus) :
           /\ process' = r
           /\ firstFetch' = r
           /\ IF FirstFetchEnds(r)
                  THEN /\ wret' = TerminalReturn(r.process.Status)
                       /\ wpc' = "done"
                  ELSE /\ wpc' = "select"
                       /\ UNCHANGED wret
    /\ UNCHANGED <<serverStatus, wctx, currentInterval, fetches, waits>>
    /\ UNCHANGED <<final, change>>
    /\ UNCHANGED <<retryVars, redirectVars, otherVars>>

\* lines 633-634: the interval elapses before the context is done, the poll's
\* status fetch is started
PollTimer ==
    /\ wpc = "select"
    /\ wctx = "live"
    /\ Len(waits) < MaxPolls
    /\ waits' = Append(waits, currentInterval)
    /\ fetches' = fetches + 1
    /\ wpc' = "poll"
    /\ UNCHANGED <<serverStatus, wctx, currentInterval, process, firstFetch, wret>>
    /\ UNCHANGED <<final, change>>
    /\ UNCHANGED <<retryVars, redirectVars, otherVars>>

\* lines 634-650: the poll's fetch returns
PollReturns ==
    /\ wpc = "poll"
    /\ \E r \in FetchResults(wctx, serverStatus) :
           /\ process' = r
           /\ IF r.err # NoError
                  THEN /\ wret' = [process |-> NilProcess, err |-> PollError(r.err)]
                       /\ wpc' = "done"
                       /\ UNCHANGED currentInterval
              ELSE IF Terminal(r.process.Status)
                  THEN /\ wret' = TerminalReturn(r.process.Status)
                       /\ wpc' = "done"
                       /\ UNCHANGED currentInterval
                  ELSE /\ currentInterval' = NextInterval(currentInterval)
                       /\ wpc' = "select"
                       /\ UNCHANGED wret
    /\ UNCHANGED <<serverStatus, wctx, firstFetch, fetches, waits>>
    /\ UNCHANGED <<final, change>>
    /\ UNCHANGED <<retryVars, redirectVars, otherVars>>

\* lines 625-627: the context is done, the final fetch is started with
\* context.Background()
DeadlineSeen ==
    /\ wpc = "select"
    /\ wctx # "live"
    /\ fetches' = fetches + 1
    /\ wpc' = "final"
    /\ UNCHANGED <<serverStatus, wctx, currentInterval, process, firstFetch, waits, wret>>
    /\ final' = [fetches |-> final.fetches + 1, ctx |-> "background",
                 result |-> NoFetch, last |-> process]
    /\ UNCHANGED change
    /\ UNCHANGED <<retryVars, redirectVars, otherVars>>

\* lines 627-631: the final fetch returns
FinalFetchReturns ==
    /\ wpc = "final"
    /\ \E r \in FinalFetchResults(serverStatus) :
           /\ process' = r
           /\ final' = [final EXCEPT !.result = r]
           /\ wret' = IF ~r.process.nil
                        THEN [process |-> r.process,
                              err |-> TimeoutStatusError(r.process.Status)]
                        ELSE [process |-> NilProcess, err |-> TimeoutError(wctx)]
    /\ wpc' = "done"
    /\ UNCHANGED <<serverStatus, wctx, currentInterval, firstFetch, fetches, waits>>
    /\ UNCHANGED change
    /\ UNCHANGED <<retryVars, redirectVars, otherVars>>

\* line 603: the timeout elapses, or the caller's context is done
ContextDone ==
    /\ wpc \notin {"idle", "done"}
    /\ wctx = "live"
    /\ wctx' \in {"timeout", "deadline", "canceled"}
    /\ UNCHANGED <<wpc, serverStatus, currentInterval, process, firstFetch, fetches,
                   waits, wret>>
    /\ UNCHANGED <<final, change>>
    /\ UNCHANGED <<retryVars, redirectVars, otherVars>>

\* the server moves the process on; a finished process stays as it is
ServerProgress ==
    /\ wpc # "done"
    /\ serverStatus \in {"PENDING", "RUNNING", "ROLLBACKING"}
    /\ serverStatus' \in ProcessStatuses \ {serverStatus}
    /\ UNCHANGED <<wpc, wctx, currentInterval, process, firstFetch, fetches, waits, wret>>
    /\ change' = [polls |-> Len(waits), pc |-> wpc]
    /\ UNCHANGED final
    /\ UNCHANGED <<retryVars, redirectVars, otherVars>>

\* part_003 lines 771-787: what the process_status tool says about a process
\* of status st
ProcessStatusMessage(st) ==
    IF st = "PENDING" THEN "is pending and will start soon"
    ELSE IF st = "RUNNING" THEN "is currently running"
    ELSE IF st \in {"SUCCESS", "FINISHED"} THEN "completed successfully"
    ELSE IF st = "FAILED" THEN "failed"
    ELSE IF st = "CANCELED" THEN "was canceled"
    ELSE "has status: " \o st

\* the statuses process_status presents as the end of the process
PresentsFinished(st) ==
    ProcessStatusMessage(st) \in {"completed successfully", "failed", "was canceled"}

NextWait ==
    \/ WaitForProcess
    \/ FirstFetchReturns
    \/ PollTimer
    \/ PollReturns
    \/ DeadlineSeen
    \/ FinalFetchReturns
    \/ ContextDone
    \/ ServerProgress

----------------------------------------------------------------------------
(* tools: HandleAsyncProcess around WaitForProcess *)

NoToolResult == [kind |-> "none", code |-> ""]

IdleTools == toolResult = NoToolResult

ErrorResponse(code) == [kind |-> "error", code |-> code]

SuccessResponse(status) == [kind |-> "success", code |-> status]

\* common.go lines 60-157: the code of the response HandleAPIError builds from
\* the text of the error
HandleAPIError(e) ==
    LET has(t) == Contains(e.msg, t)
    IN  IF has("401") THEN ErrorResponse("AUTH_FAILED")
        ELSE IF has("403") THEN ErrorResponse("FORBIDDEN")
        ELSE IF has("404") THEN
            IF has("logs endpoint not available")
                THEN ErrorResponse("LOGS_NOT_AVAILABLE")
                ELSE ErrorResponse("NOT_FOUND")
        ELSE IF has("409") THEN ErrorResponse("CONFLICT")
        ELSE IF has("422") THEN ErrorResponse("INVALID_INPUT")
        ELSE IF has("400") THEN
            IF has("processNotFound") THEN ErrorResponse("PROCESS_NOT_FOUND")
            ELSE IF has("projectImportInvalidParameter")
                THEN ErrorResponse("INVALID_YAML_STRUCTURE")
            ELSE IF has("projectImportProjectIncluded")
                THEN ErrorResponse("PROJECT_CONFIG_NOT_ALLOWED")
            ELSE ErrorResponse("INVALID_REQUEST")
        ELSE IF has("500") \/ has("502") \/ has("503") THEN ErrorResponse("SERVER_ERROR")
        ELSE IF has("connection refused") THEN ErrorResponse("CONNECTION_FAILED")
        ELSE IF has("timeout") THEN ErrorResponse("TIMEOUT")
        ELSE ErrorResponse("API_ERROR")

\* knowledge.go lines 787-812; the status fetch it makes only adds to the text
HandleProcessTimeout == ErrorResponse("OPERATION_TIMEOUT")

\* knowledge.go lines 815-830
HandleProcessCompletion(p) ==
    IF p.Status = "SUCCESS" \/ p.Status = "FINISHED"
        THEN SuccessResponse(p.Status)
        ELSE ErrorResponse("OPERATION_FAILED")

\* ctx.Err() of the context HandleAsyncProcess was called with, the parent of
\* the one WaitForProcess made at client.go line 603: the timer of the child
\* leaves the parent live
CallerErr(c) == IF c \in {"live", "timeout"} THEN "none" ELSE c

\* knowledge.go line 778
ReportsTimeout(c) == CallerErr(c) = "deadline"

\* knowledge.go lines 767-774: config.Wait is false, nothing is waited for
HandleAsyncProcessNoWait ==
    /\ wpc = "idle"
    /\ toolResult = NoToolResult
    /\ toolResult' = SuccessResponse("PENDING")
    /\ UNCHANGED <<retryVars, redirectVars, waitVars, errorVars, debugVars, callVars>>

\* knowledge.go lines 776-784: WaitForProcess returned
HandleAsyncProcess ==
    /\ wpc = "done"
    /\ toolResult = NoToolResult
    /\ toolResult' = IF wret.err # NoError
                         THEN IF ReportsTimeout(wctx)
                                  THEN HandleProcessTimeout
                                  ELSE HandleAPIError(wret.err)
                         ELSE HandleProcessCompletion(wret.process)
    /\ UNCHANGED <<retryVars, redirectVars, waitVars, errorVars, debugVars, callVars>>

\* a call of HandleAsyncProcess with config.Wait set enters WaitForProcess
HandleWaits ==
    /\ toolResult = NoToolResult
    /\ NextWait

NextHandle ==
    \/ HandleWaits
    \/ HandleAsyncProcessNoWait
    \/ HandleAsyncProcess

----------------------------------------------------------------------------
(* client.go: ImportProjectServices, and the debug log of doRequest *)

LogEntry(label, arg, text) == [label |-> label, arg |-> arg, text |-> text]

\* log.Printf, reached only under if c.debug
Logged(on, entries) == IF on THEN entries ELSE <<>>

YamlInputs ==
    {"services: []",
     "services:\n  password: hunter2",
     "#yamlPreprocessor=on\nservices:\n  token: \"t0\"",
     "apiKey: abcdefghij0123456789ABCD"}

ImportApiKey == "zk0123456789abcdefgh"

ImportUrl == "https://api.zerops.io/api/rest/public/service-stack/import"

\* lines 80-82: json.Marshal of the ImportRequest of lines 284-288
ImportBody(y) ==
    "{\"projectId\":\"P1\",\"clientId\":\"C1\",\"yaml\":\"" \o EscapeJSON(y, 1) \o "\"}"

DebugBodies ==
    Bodies \cup {[bytes |-> "{\"token\":\"t1\"}", valid |-> TRUE, code |-> "", message |-> ""]}

DebugOutcomes ==
    {Response(st, b) : st \in {200, 400, 404, 503}, b \in DebugBodies}
        \cup {Transport("EOF"), ReadFailure(200)}

IdleDebug ==
    /\ debug = FALSE
    /\ yamlData = "services: []"
    /\ dpc = "idle"
    /\ log = <<>>
    /\ sent = ""
    /\ dout = NoOutcome
    /\ dret = NoReturn

InitDebug ==
    /\ debug \in BOOLEAN
    /\ yamlData \in YamlInputs
    /\ dpc = "idle"
    /\ log = <<>>
    /\ sent = ""
    /\ dout = NoOutcome
    /\ dret = NoReturn

\* lines 284-293: entry
ImportProjectServices ==
    /\ dpc = "idle"
    /\ log' = log \o Logged(debug,
                  <<LogEntry("ImportProjectServices: Sending YAML", yamlData, yamlData),
                    LogEntry("ImportProjectServices: Has preprocessor directive", yamlData,
                             IF Contains(yamlData, "#yamlPreprocessor=on")
                                 THEN "true" ELSE "false")>>)
    /\ dpc' = "request"
    /\ UNCHANGED <<debug, yamlData, sent, dout, dret>>
    /\ UNCHANGED <<retryVars, redirectVars, waitVars, toolVars, errorVars, callVars>>

\* lines 80-106 of doRequest: the body is serialised, logged and handed to
\* the transport
ImportRequestSent ==
    /\ dpc = "request"
    /\ LET jsonBody == ImportBody(yamlData)
       IN  /\ log' = log \o Logged(debug,
                         <<LogEntry("Request body", jsonBody, MaskSensitive(jsonBody)),
                           LogEntry("POST", ImportApiKey,
                                    ImportUrl \o " (API Key: "
                                       \o MaskAPIKey(ImportApiKey) \o ")")>>)
           /\ sent' = jsonBody
    /\ dpc' = "inflight"
    /\ UNCHANGED <<debug, yamlData, dout, dret>>
    /\ UNCHANGED <<retryVars, redirectVars, waitVars, toolVars, errorVars, callVars>>

\* lines 106-135 of doRequest: the transport answers
ImportReturns ==
    /\ dpc = "inflight"
    /\ \E o \in DebugOutcomes :
           /\ dout' = o
           /\ log' = log \o Logged(debug /\ o.kind = "response",
                         <<LogEntry("Response status", FormatInt(o.status),
                                    FormatInt(o.status)),
                           LogEntry("Response body", o.body.bytes,
                                    MaskSensitive(o.body.bytes))>>)
           /\ dret' = doRequest(o, ImportUrl, 0)
    /\ dpc' = "done"
    /\ UNCHANGED <<debug, yamlData, sent>>
    /\ UNCHANGED <<retryVars, redirectVars, waitVars, toolVars, errorVars, callVars>>

NextDebug ==
    \/ ImportProjectServices
    \/ ImportRequestSent
    \/ ImportReturns

----------------------------------------------------------------------------
(* retry.go: several goroutines in doRequestWithRetry on one Client *)

\* the calls under way at once
NumCalls == 2

CallIds == 1..NumCalls

\* the policies of the shared client
ConcurrentPolicies ==
    {[DefaultRetryConfig EXCEPT !.MaxRetries = n] : n \in {-1, 1}}

\* what the transport gives a request of one of the calls
ConcurrentLive ==
    {Response(st, [bytes |-> "{\"status\":\"RUNNING\"}", valid |-> TRUE,
                   code |-> "", message |-> ""]) : st \in {200, 404, 503}}

ConcurrentOutcomes(atSend, now) ==
    IF atSend # "none" THEN {Transport(ContextErrorText(atSend))}
    ELSE IF now # "none" THEN ConcurrentLive \cup {Transport(ContextErrorText(now))}
    ELSE ConcurrentLive

IdleCall ==
    [pc |-> "idle", config |-> DefaultRetryConfig, attempt |-> 0, lastErr |-> NoError,
     ctxErr |-> "none", ctxAtSend |-> "none", outs |-> <<>>, requests |-> 0,
     ret |-> NoReturn]

IdleCalls ==
    /\ calls = [i \in CallIds |-> IdleCall]
    /\ concurrent = {}

UnderWay(cs, i) == cs[i].pc \notin {"idle", "done"}

\* the attempt counter of every call, as if it were a field of the Client
OwnAttempt_Shared(cs, i) ==
    CHOOSE a \in {cs[j].attempt : j \in CallIds} :
        \A j \in CallIds : cs[j].attempt <= a

\* line 41: attempt is a variable of the call
OwnAttempt(cs, i) == cs[i].attempt

\* lines 33-39: entry
CallStarts(i) ==
    /\ calls[i].pc = "idle"
    /\ calls' = [calls EXCEPT ![i].config = EffectiveConfig(retryConfig),
                              ![i].lastErr = NoError,
                              ![i].attempt = 0,
                              ![i].pc = "loop"]
    /\ concurrent' =
           IF \E j \in CallIds \ {i} : UnderWay(calls, j)
               THEN concurrent \cup {i} \cup {j \in CallIds : UnderWay(calls, j)}
               ELSE concurrent

\* lines 41-43: the attempt hands its request to the transport
CallSends(i) ==
    /\ calls[i].pc = "loop"
    /\ LoopContinues(OwnAttempt(calls, i), calls[i].config)
    /\ calls' = [calls EXCEPT ![i].requests = @ + 1,
                              ![i].ctxAtSend = calls[i].ctxErr,
                              ![i].pc = "inflight"]
    /\ UNCHANGED concurrent

\* lines 45-66: the transport answers
CallReceives(i) ==
    /\ calls[i].pc = "inflight"
    /\ \E o \in ConcurrentOutcomes(calls[i].ctxAtSend, calls[i].ctxErr) :
           LET a    == OwnAttempt(calls, i)
               r    == doRequest(o, url, a)
               seen == [calls[i] EXCEPT !.outs = Append(@, o)]
           IN  calls' = [calls EXCEPT ![i] =
                   IF r.err = NoError THEN
                       [seen EXCEPT !.ret = [resp |-> r.resp, err |-> NoError],
                                    !.pc = "done"]
                   ELSE IF ReturnsFailure(r.err, a, seen.config) THEN
                       [seen EXCEPT !.ret = [resp |-> <<>>,
                                             err |-> FailureResult(r.err, seen.lastErr)],
                                    !.pc = "done"]
                   ELSE [seen EXCEPT !.lastErr = r.err, !.pc = "wait"]]
    /\ UNCHANGED concurrent

\* lines 64-66 and 41: the delay elapses, the loop goes on
CallWaitElapsed(i) ==
    /\ calls[i].pc = "wait"
    /\ TimerWins(calls[i].ctxErr)
    /\ calls' = [calls EXCEPT ![i].attempt = OwnAttempt(calls, i) + 1, ![i].pc = "loop"]
    /\ UNCHANGED concurrent

\* lines 62-63: the context of the call is done
CallWaitCancelled(i) ==
    /\ calls[i].pc = "wait"
    /\ calls[i].ctxErr # "none"
    /\ calls' = [calls EXCEPT ![i].ret = [resp |-> <<>>,
                                          err |-> ContextError(calls[i].ctxErr)],
                              ![i].pc = "done"]
    /\ UNCHANGED concurrent

\* line 75: the loop ran out
CallLoopExit(i) ==
    /\ calls[i].pc = "loop"
    /\ ~LoopContinues(OwnAttempt(calls, i), calls[i].config)
    /\ calls' = [calls EXCEPT ![i].ret = [resp |-> <<>>, err |-> calls[i].lastErr],
                              ![i].pc = "done"]
    /\ UNCHANGED concurrent

\* the caller of call i cancels its context
CallCancel(i) ==
    /\ calls[i].pc # "done"
    /\ calls[i].ctxErr = "none"
    /\ calls' = [calls EXCEPT ![i].ctxErr = "canceled"]
    /\ UNCHANGED concurrent

OtherThanCalls == <<retryVars, redirectVars, waitVars, toolVars, errorVars, debugVars>>

NextConcurrent ==
    \/ \E i \in CallIds : CallStarts(i) /\ UNCHANGED OtherThanCalls
    \/ \E i \in CallIds : CallSends(i) /\ UNCHANGED OtherThanCalls
    \/ \E i \in CallIds : CallReceives(i) /\ UNCHANGED OtherThanCalls
    \/ \E i \in CallIds : CallWaitElapsed(i) /\ UNCHANGED OtherThanCalls
    \/ \E i \in CallIds : CallWaitCancelled(i) /\ UNCHANGED OtherThanCalls
    \/ \E i \in CallIds : CallLoopExit(i) /\ UNCHANGED OtherThanCalls
    \/ \E i \in CallIds : CallCancel(i) /\ UNCHANGED OtherThanCalls

----------------------------------------------------------------------------
(* errors: NewAPIError *)

NoAPIError == [StatusCode |-> 0, Code |-> "", Message |-> "", Retryable |-> FALSE]

\* the statuses an APIError is built for: the 4xx and 5xx of client.go line 124
ErrorStatusCodes == 400..599

\* part_004 lines 95-102
isRetryableStatusCode(code) ==
    IF code \in {429, 502, 503, 504} THEN TRUE ELSE code >= 500

IdleErrors ==
    /\ statusCode = 0
    /\ apiError = NoAPIError

InitErrors ==
    /\ statusCode \in ErrorStatusCodes
    /\ apiError = NoAPIError

\* part_004 lines 30-37
NewAPIError ==
    /\ apiError = NoAPIError
    /\ apiError' = [StatusCode |-> statusCode,
                    Code       |-> "apiError",
                    Message    |-> "request rejected",
                    Retryable  |-> isRetryableStatusCode(statusCode)]
    /\ UNCHANGED statusCode
    /\ UNCHANGED <<retryVars, redirectVars, waitVars, toolVars, debugVars, callVars>>

----------------------------------------------------------------------------
(* The specifications: one logical call, one redirect chain, one wait *)

IdleOther == IdleTools /\ IdleErrors /\ IdleDebug /\ IdleCalls

Init == InitRetry /\ IdleRedirect /\ IdleWait /\ IdleOther

Next == NextRetry

Spec == Init /\ [][Next]_vars

IdleRetry ==
    /\ retryConfig = DefaultRetryConfig
    /\ url = "https://api.zerops.io/process/Qx7"
    /\ reqBody = "nil"
    /\ pc = "idle"
    /\ config = DefaultRetryConfig
    /\ attempt = 0
    /\ err = NoError
    /\ resp = <<>>
    /\ lastErr = NoError
    /\ delay = 0
    /\ ctxErr = "none"
    /\ ctxAtSend = "none"
    /\ ret = NoReturn
    /\ requests = 0
    /\ waited = 0
    /\ outcome = NoOutcome
    /\ allRetryable = TRUE
    /\ cancelPc = "none"
    /\ cancelRequests = 0
    /\ cancelWaited = 0

RedirectInit == IdleRetry /\ InitRedirect /\ IdleWait /\ IdleOther

SpecRedirect == RedirectInit /\ [][NextRedirect]_vars

WaitInit == IdleRetry /\ IdleRedirect /\ InitWait /\ IdleOther

SpecWait == WaitInit /\ [][NextWait]_vars

\* timers fire (the timeout of line 603, the interval of line 633) and every
\* status fetch returns
WaitFairness ==
    /\ WF_vars(FirstFetchReturns)
    /\ WF_vars(PollTimer)
    /\ WF_vars(PollReturns)
    /\ WF_vars(DeadlineSeen)
    /\ WF_vars(FinalFetchReturns)
    /\ WF_vars(ContextDone)

BackoffInit ==
    /\ config \in BackoffPolicies
    /\ attempt \in 0..MaxAttemptIndex
    /\ pc = "backoff"
    /\ delay = 0
    /\ retryConfig = config
    /\ url = "https://api.zerops.io/process/Qx7"
    /\ reqBody = "nil"
    /\ err = NoError
    /\ resp = <<>>
    /\ lastErr = NoError
    /\ ctxErr = "none"
    /\ ctxAtSend = "none"
    /\ ret = NoReturn
    /\ requests = 0
    /\ waited = 0
    /\ outcome = NoOutcome
    /\ allRetryable = TRUE
    /\ cancelPc = "none"
    /\ cancelRequests = 0
    /\ cancelWaited = 0
    /\ IdleRedirect
    /\ IdleWait
    /\ IdleOther

SpecBackoff == BackoffInit /\ [][Backoff]_vars

PolicyInit == Init /\ url = "https://api.zerops.io/process/Qx7"

SpecPolicy == PolicyInit /\ [][NextPolicy]_vars

ErrorsInit ==
    IdleRetry /\ IdleRedirect /\ IdleWait /\ IdleTools /\ InitErrors /\ IdleDebug
        /\ IdleCalls

DebugInit ==
    IdleRetry /\ IdleRedirect /\ IdleWait /\ IdleTools /\ IdleErrors /\ InitDebug
        /\ IdleCalls

ConcurrentInit ==
    /\ retryConfig \in ConcurrentPolicies
    /\ url = "https://api.zerops.io/process/Qx7"
    /\ reqBody = "nil"
    /\ pc = "idle"
    /\ config = DefaultRetryConfig
    /\ attempt = 0
    /\ err = NoError
    /\ resp = <<>>
    /\ lastErr = NoError
    /\ delay = 0
    /\ ctxErr = "none"
    /\ ctxAtSend = "none"
    /\ ret = NoReturn
    /\ requests = 0
    /\ waited = 0
    /\ outcome = NoOutcome
    /\ allRetryable = TRUE
    /\ cancelPc = "none"
    /\ cancelRequests = 0
    /\ cancelWaited = 0
    /\ IdleRedirect
    /\ IdleWait
    /\ IdleTools
    /\ IdleErrors
    /\ IdleDebug
    /\ IdleCalls

SpecConcurrent == ConcurrentInit /\ [][NextConcurrent]_vars

SpecDebug == DebugInit /\ [][NextDebug]_vars

SpecErrors == ErrorsInit /\ [][NewAPIError]_vars

SpecHandle == WaitInit /\ [][NextHandle]_vars

SpecWaitFair == WaitInit /\ [][NextWait]_vars /\ WaitFairness

----------------------------------------------------------------------------
(* Properties of doRequestWithRetry *)

\* C1: for every retry policy with MaxRetries = N >= 0, N = 0 included, one
\* logical call never makes more than N + 1 physical requests.
C1_AttemptCeiling ==
    retryConfig.MaxRetries >= 0 => requests <= retryConfig.MaxRetries + 1

\* C2: with MaxRetries = N >= 0, every attempt answered with a retryable
\* status and no cancellation, the call ends after exactly N + 1 physical
\* requests with an error.
C2_ExactlyNPlusOne ==
    (/\ pc = "done"
     /\ retryConfig.MaxRetries >= 0
     /\ allRetryable
     /\ ctxErr = "none")
        => (requests = retryConfig.MaxRetries + 1 /\ ret.err # NoError)

\* a response whose status is in 400..599 and is none of 429, 502, 503, 504
HasNonRetryableStatus(o) ==
    /\ o.kind = "response"
    /\ o.status \in 400..599
    /\ o.status \notin RetryableStatusCodes

\* C3: a response with a status in 400..599 other than 429, 502, 503 and 504
\* ends the call, whatever its body says: the error is returned, no backoff
\* wait follows, and when it answers the first attempt the call has made
\* exactly one physical request.
C3_NonRetryableStatusEndsCall ==
    HasNonRetryableStatus(outcome)
        => (/\ pc = "done"
            /\ ret = [resp |-> <<>>, err |-> err]
            /\ err # NoError
            /\ (attempt = 0 => (requests = 1 /\ waited = 0)))

\* C4: a response with status 429, 502, 503 or 504 to attempt k < MaxRetries
\* (the MaxRetries the loop runs under), the context not being done, is
\* followed by a backoff wait, and the wait by attempt k + 1; the error of
\* such a response is returned only from attempt k = MaxRetries.
C4_RetryableStatusStep ==
    /\ (/\ pc = "inflight"
        /\ pc' # "inflight"
        /\ HasRetryableStatus(outcome')
        /\ attempt < config.MaxRetries)
            => (pc' = "wait" /\ lastErr' = err' /\ requests' = requests)
    /\ (/\ pc = "wait"
        /\ pc' # "wait"
        /\ ctxErr' = "none")
            => (/\ pc' = "loop"
                /\ attempt' = attempt + 1
                /\ LoopContinues(attempt', config'))
    /\ (/\ pc = "inflight"
        /\ pc' = "done"
        /\ HasRetryableStatus(outcome'))
            => (attempt = config.MaxRetries /\ ret'.err = err')

C4_RetryableStatusIsRetried == [][C4_RetryableStatusStep]_vars

\* a retryable status was answered to an attempt before the last, the wait
\* elapsed and the next attempt's request is in flight
C4_Witness ==
    /\ pc = "inflight"
    /\ attempt >= 1
    /\ HasRetryableStatus(outcome)
    /\ outcome.status = 504
    /\ ctxErr = "none"

\* C5: when the context becomes done during a backoff wait, the call returns
\* the context's error, the delay is not waited out and no physical request
\* is started afterwards.
C5_CancelDuringWait ==
    cancelPc = "wait"
        => (/\ requests = cancelRequests
            /\ waited = cancelWaited
            /\ pc \in {"wait", "done"}
            /\ (pc = "done" => ret = [resp |-> <<>>, err |-> ContextError(ctxErr)]))

C5_Witness == cancelPc = "wait" /\ pc = "done" /\ requests >= 2

\* C6: a call that ends on a non-retryable error or on its last attempt
\* returns the error of that last attempt itself.
C6_LastErrorVerbatim ==
    (/\ pc = "done"
     /\ err # NoError
     /\ (~isRetryableError(err) \/ attempt = config.MaxRetries))
        => (/\ ret.err = doRequest(outcome, url, attempt).err
            /\ ret.err.at = attempt
            /\ ret.resp = <<>>)

\* the call ran out of attempts: the last of several failed
C6_Witness ==
    /\ pc = "done"
    /\ attempt = config.MaxRetries
    /\ attempt >= 2
    /\ HasRetryableStatus(outcome)
    /\ lastErr # err

\* the last attempt was answered with a status below 400
AnsweredBelow400(o) == o.kind = "response" /\ o.status < 400

\* C7: with MaxRetries >= 0 the call returns a nil error only when an attempt
\* was answered with a status below 400, and then returns that response's
\* body; in every other case the error is not nil.
C7_SuccessOnlyFromResponse ==
    (pc = "done" /\ retryConfig.MaxRetries >= 0)
        => (/\ ret.err = NoError
                => (/\ AnsweredBelow400(outcome)
                    /\ ret.resp = <<outcome.body.bytes>>
                    /\ requests >= 1)
            /\ ~AnsweredBelow400(outcome) => (ret.err # NoError /\ ret.resp = <<>>))

\* a success after failed attempts, and a failure, are both reached
C7_Witness ==
    /\ pc = "done"
    /\ retryConfig.MaxRetries >= 0
    /\ ret.err = NoError
    /\ attempt >= 1
    /\ lastErr # NoError

----------------------------------------------------------------------------
(* Properties of the redirect hook *)

\* C8: in every redirect chain each redirected request carries the
\* Authorization header of the first request of the chain, whatever the
\* header the hop arrived with.
C8_AuthorizationPreserved ==
    \A i \in 1..Len(via) : via[i].auth = via[1].auth

\* three redirects were followed and the newest arrived with the header dropped
C8_Witness ==
    /\ Len(via) >= 4
    /\ hopHeader = ""
    /\ rpc = "answered"

\* C9: a chain of k redirects is followed to the final response for every
\* k <= 10; a chain of k >= 11 redirects fails with an error the retry
\* classifier takes for non-retryable, so the call is not attempted again.
C9_RedirectCap ==
    /\ (rpc = "failed" => chain >= 11)
    /\ (rpc = "answered" => chain <= 10)
    /\ (rpc = "failed" =>
            (/\ ~isRetryableError(redirectErr)
             /\ ReturnsFailure(redirectErr, 0, DefaultRetryConfig)))

----------------------------------------------------------------------------
(* Properties of WaitForProcess *)

\* C10: when the immediate status fetch returns a terminal status the call
\* has returned after that one fetch and no poll wait: with a nil error for
\* SUCCESS and FINISHED, with the process and a 'process failed' error for
\* FAILED, ERROR and CANCELLED.
C10_ImmediateTerminal ==
    (/\ firstFetch.err = NoError
     /\ ~firstFetch.process.nil
     /\ firstFetch.process.Status
            \in {"SUCCESS", "FINISHED", "FAILED", "ERROR", "CANCELLED"})
        => (/\ wpc = "done"
            /\ fetches = 1
            /\ waits = <<>>
            /\ wret.process = firstFetch.process
            /\ IF firstFetch.process.Status \in {"SUCCESS", "FINISHED"}
                   THEN wret.err = NoError
                   ELSE /\ wret.err # NoError
                        /\ wret.err.msg = "process " \o ProcessID
                               \o " failed with status: " \o firstFetch.process.Status)

\* the immediate fetch saw ERROR and the call returned
C10_Witness ==
    /\ wpc = "done"
    /\ firstFetch.err = NoError
    /\ firstFetch.process.Status = "ERROR"
    /\ wret.err # NoError

\* the sum of the first n entries of s
RECURSIVE SumFirst(_, _)
SumFirst(s, n) == IF n = 0 THEN 0 ELSE SumFirst(s, n - 1) + s[n]

\* C11: when the deadline elapsed and the final status fetch observes a
\* Success-like status the call reports success, not a timeout error; a
\* Failure-like final status is reported as the failure of the process.
C11_FinalStatusReported ==
    (/\ wpc = "done"
     /\ final.fetches = 1
     /\ final.result.err = NoError
     /\ ~final.result.process.nil)
        => LET st == final.result.process.Status
           IN  /\ st \in {"SUCCESS", "FINISHED"}
                    => (wret.err = NoError /\ wret.process = final.result.process)
               /\ st \in {"FAILED", "ERROR", "CANCELLED"}
                    => (wret.err # NoError /\ wret.process = final.result.process)

\* the call ended on the deadline: the select saw the context done, or the
\* deadline cut a status fetch short
EndedByDeadline ==
    /\ wpc = "done"
    /\ wctx \in {"timeout", "deadline"}
    /\ \/ final.fetches > 0
       \/ /\ process.err # NoError
          /\ Contains(process.err.msg, ContextErrorText("deadline"))

\* C12: a call that ends because the deadline elapsed with no terminal status
\* observed has made exactly one final status fetch, with a context the
\* deadline does not bind, also when the deadline expired during a poll's
\* status fetch.
C12_OneFinalFetch ==
    EndedByDeadline => (final.fetches = 1 /\ final.ctx = "background")

\* C13: in the wait loop a status fetch that fails with a transient error does
\* not end the call; the interval advances to the next step and polling
\* goes on.
C13_Step ==
    (/\ wpc = "poll"
     /\ wpc' # "poll"
     /\ process'.err # NoError
     /\ isRetryableError(process'.err))
        => (/\ wpc' = "select"
            /\ wret' = wret
            /\ currentInterval' = NextInterval(currentInterval))

C13_TransientErrorKeepsPolling == [][C13_Step]_vars

\* min(500ms x 1.5^k, 5s)
PollSchedule(k) == Min((500000 * PowInt(3, k)) \div PowInt(2, k), 5000000)

\* the server made the process Success-like at time t after the call, status
\* fetches taking no time: during the poll wait that spans t
BecameSuccessAt(t) ==
    /\ serverStatus \in {"SUCCESS", "FINISHED"}
    /\ change.pc = "select"
    /\ Len(waits) > change.polls
    /\ SumFirst(waits, change.polls) < t
    /\ t <= SumFirst(waits, change.polls + 1)

\* C14: the k-th poll wait is min(500ms x 1.5^k, 5s), without jitter: 500,
\* 750, 1125, ... ms, never decreasing, never above 5s.  For a process that
\* becomes Success-like at 2.1s exactly three polls follow the immediate
\* check, at 500, 1250 and 2375 ms, and the third observes the success.
C14_PollSchedule ==
    /\ \A k \in 1..Len(waits) :
           /\ waits[k] = PollSchedule(k - 1)
           /\ waits[k] <= 5000000
           /\ (k > 1 => waits[k - 1] <= waits[k])
    /\ Len(waits) >= 3 => SubSeq(waits, 1, 3) = <<500000, 750000, 1125000>>
    /\ (/\ wpc = "done"
        /\ BecameSuccessAt(2100000)
        /\ process.err = NoError
        /\ final.fetches = 0)
            => (/\ Len(waits) = 3
                /\ SumFirst(waits, 2) = 1250000
                /\ SumFirst(waits, 3) = 2375000
                /\ wret.err = NoError
                /\ wret.process.Status = serverStatus)

C14_Witness ==
    /\ wpc = "done"
    /\ BecameSuccessAt(2100000)
    /\ Len(waits) = 3
    /\ wret.err = NoError

\* C15: the call returns a nil error only when one of its status fetches
\* observed SUCCESS or FINISHED, and then with that process; an observed
\* Failure-like status, a failed fetch or the expiry of the deadline always
\* gives an error.
C15_NilErrorOnlyOnSuccess ==
    wpc = "done"
        => (/\ wret.err = NoError
                => (/\ process.err = NoError
                    /\ process.process.Status \in {"SUCCESS", "FINISHED"}
                    /\ ~wret.process.nil
                    /\ wret.process = process.process
                    /\ final.fetches = 0)
            /\ (/\ process.err = NoError
                /\ process.process.Status \in {"FAILED", "ERROR", "CANCELLED"})
                    => wret.err # NoError
            /\ process.err # NoError => wret.err # NoError
            /\ final.fetches > 0 => wret.err # NoError)

\* a poll observed FAILED and the call returned it
C15_Witness ==
    /\ wpc = "done"
    /\ Len(waits) >= 1
    /\ final.fetches = 0
    /\ process.err = NoError
    /\ process.process.Status = "FAILED"
    /\ wret.err # NoError

\* C16: every call of WaitForProcess returns in the end, timers firing and
\* every status fetch returning.
C16_EventuallyReturns == (wpc # "idle") ~> (wpc = "done")

\* the call returned after the deadline and a final fetch that failed
C16_Witness ==
    /\ wpc = "done"
    /\ final.fetches = 1
    /\ final.result.err # NoError
    /\ Len(waits) >= 1

\* C19: exactly SUCCESS and FINISHED count as Success-like, exactly FAILED,
\* ERROR and CANCELLED as Failure-like; any other status fetched by the
\* immediate check or a poll leaves the call waiting.
C19_Step ==
    (/\ wpc \in {"first", "poll"}
     /\ wpc' # wpc
     /\ process'.err = NoError)
        => LET st == process'.process.Status
           IN  IF st \in {"SUCCESS", "FINISHED"}
                   THEN /\ wpc' = "done"
                        /\ wret' = [process |-> process'.process, err |-> NoError]
               ELSE IF st \in {"FAILED", "ERROR", "CANCELLED"}
                   THEN /\ wpc' = "done"
                        /\ wret'.process = process'.process
                        /\ wret'.err # NoError
               ELSE /\ wpc' = "select"
                    /\ wret' = wret

C19_StatusClassification == [][C19_Step]_vars

\* a poll fetched a status the switch does not name and the call went on
C19_Witness ==
    /\ wpc = "select"
    /\ Len(waits) >= 1
    /\ process.err = NoError
    /\ process.process.Status = "CANCELED"

\* C20: a physical attempt that failed in the transport (no HTTP response),
\* the caller's own cancellation aside, gives an error isRetryableError
\* classifies as retryable, and the call returns that error only from its
\* last attempt.
C20_TransportFailureRetried ==
    (/\ outcome.kind = "transport"
     /\ outcome.detail \in TransportDetails
     /\ err = doRequest(outcome, url, attempt).err)
        => (/\ isRetryableError(err)
            /\ (pc = "done" /\ ret.err = err) => attempt = config.MaxRetries)

\* C18: the policy a call runs under is the value it read when it started:
\* replacing the client's policy while the call is in flight changes neither
\* the policy of the call, nor its attempt limit, nor its delays.
C18_Step ==
    /\ pc # "idle" => config' = config
    /\ (pc \in {"loop", "inflight"} /\ pc' = "wait")
           => (/\ attempt < config.MaxRetries
               /\ \E r10 \in RandDraws : delay' = calculateBackoff(attempt, config, r10))
    /\ (pc \in {"loop", "inflight"} /\ pc' = "done" /\ isRetryableError(err'))
           => attempt = config.MaxRetries
    /\ (pc = "loop" /\ pc' \in {"inflight", "wait"}) => attempt <= config.MaxRetries

C18_PolicySnapshot == [][C18_Step]_vars

\* a call that ran to its last attempt under the policy it started with after
\* the client's policy was replaced by one with another limit
C18_Witness ==
    /\ pc = "done"
    /\ retryConfig.MaxRetries # 0
    /\ retryConfig.MaxRetries < config.MaxRetries
    /\ attempt = config.MaxRetries
    /\ requests = attempt + 1
    /\ isRetryableError(ret.err)

\* the policies the specification of the backoff allows: positive BaseDelay,
\* MaxDelay >= BaseDelay, Multiplier >= 1, JitterFactor in [0, 1]
ValidPolicy(cfg) ==
    /\ cfg.BaseDelay > 0
    /\ cfg.MaxDelay >= cfg.BaseDelay
    /\ cfg.Multiplier >= 10
    /\ cfg.JitterFactor \in 0..10

\* raw = min(BaseDelay x Multiplier^a, MaxDelay) as a fraction: it agrees with
\* the closed form where that can be computed, never exceeds MaxDelay, and
\* once it equals MaxDelay it stays there
RawSaturates(a, cfg) ==
    LET raw == CappedBackoff(a, cfg)
    IN  /\ raw[1] <= cfg.MaxDelay * raw[2]
        /\ a <= 3 =>
              IF cfg.BaseDelay * PowInt(cfg.Multiplier, a) > cfg.MaxDelay * Pow10(a)
              THEN raw = <<cfg.MaxDelay, 1>>
              ELSE raw = Frac(cfg.BaseDelay * PowInt(cfg.Multiplier, a), Pow10(a))
        /\ raw = <<cfg.MaxDelay, 1>> => CappedBackoff(a + 1, cfg) = raw
        /\ \A b \in 0..a : CappedBackoff(b, cfg)[1] * raw[2] <= raw[1] * CappedBackoff(b, cfg)[2]

C21_Step ==
    (/\ process.err = NoError
     /\ ~process.process.nil
     /\ process.process.Status \in {"SUCCESS", "FINISHED", "FAILED", "ERROR", "CANCELLED"})
        => (wpc = "done" /\ wpc' = "done" /\ fetches' = fetches)

C21_NoFetchAfterTerminal == [][C21_Step]_vars

\* the second poll observed a terminal status: three fetches, none after it
C21_Witness ==
    /\ wpc = "done"
    /\ Len(waits) = 2
    /\ fetches = 3
    /\ process.err = NoError
    /\ process.process.Status = "FINISHED"

\* C22: when the call ends in timeout and the final status fetch fails, what
\* it returns carries the status the latest earlier successful fetch observed.
C22_LastStatusCarried ==
    (/\ wpc = "done"
     /\ final.fetches = 1
     /\ final.result.err # NoError
     /\ final.last.err = NoError
     /\ ~final.last.process.nil)
        => (/\ wret.err # NoError
            /\ \/ (~wret.process.nil /\ wret.process.Status = final.last.process.Status)
               \/ Contains(wret.err.msg, final.last.process.Status))

\* C23: an immediate first fetch that fails while the context is live does
\* not end the call and its error is not returned: the call enters the wait
\* loop and fetches again after the first interval of 500ms.
C23_Step ==
    /\ (wpc = "first" /\ wpc' # "first" /\ process'.err # NoError)
           => (/\ wpc' = "select"
               /\ wret' = wret
               /\ currentInterval' = 500000)
    /\ (/\ wpc = "select"
        /\ wpc' # "select"
        /\ firstFetch.err # NoError
        /\ waits = <<>>
        /\ wctx = "live")
           => (/\ wpc' = "poll"
               /\ waits' = <<500000>>
               /\ fetches' = 2)

C23_FirstFetchErrorTolerated == [][C23_Step]_vars

\* the immediate fetch failed and the first poll then saw the process succeed
C23_Witness ==
    /\ wpc = "done"
    /\ firstFetch.err # NoError
    /\ waits = <<500000>>
    /\ fetches = 2
    /\ wret = [process |-> ProcessWith("SUCCESS"), err |-> NoError]

\* C29: every status process_status presents as finished (SUCCESS, FINISHED,
\* FAILED, CANCELED) ends WaitForProcess at the status fetch that observes it.
C29_Step ==
    (/\ wpc \in {"first", "poll"}
     /\ wpc' # wpc
     /\ process'.err = NoError
     /\ PresentsFinished(process'.process.Status))
        => (wpc' = "done" /\ wret'.process = process'.process)

C29_FinishedIsTerminal == [][C29_Step]_vars

\* C28: every call of doRequestWithRetry makes at least one physical request
\* (or fails to build it), whatever the RetryConfig, a negative MaxRetries
\* included; it never returns (nil, nil).
C28_AtLeastOneRequest ==
    pc = "done"
        => (/\ requests >= 1 \/ outcome.kind = "marshal"
            /\ ~(ret.resp = <<>> /\ ret.err = NoError))

\* C25: WithRetry leaves the retry configuration of the client it is called on
\* as it was (the configuration goes to a new client).
C25_Step == WithRetry => retryConfig' = retryConfig

C25_ReceiverUnchanged == [][C25_Step]_vars

\* C30: when WaitForProcess returned an error because its own timeout elapsed,
\* the context of the caller still live, HandleAsyncProcess answers with
\* OPERATION_TIMEOUT, the response of HandleProcessTimeout.
C30_OwnTimeoutReported ==
    (/\ toolResult # NoToolResult
     /\ wpc = "done"
     /\ wctx = "timeout"
     /\ wret.err # NoError
     /\ final.fetches = 1)
        => toolResult = ErrorResponse("OPERATION_TIMEOUT")

\* C26: NewAPIError marks the error Retryable exactly for the statuses 429,
\* 502, 503 and 504, as isRetryableError decides for the error doRequest makes
\* of a response with that status; every other status of 400..599 is marked
\* not retryable.
C26_RetryableStatuses ==
    apiError # NoAPIError
        => (/\ apiError.Retryable <=> apiError.StatusCode \in {429, 502, 503, 504}
            /\ apiError.Retryable <=>
                   isRetryableError(AttemptError(FormatInt(apiError.StatusCode) \o ": "
                                        \o apiError.Code \o " - " \o apiError.Message, 0)))

\* the entries of the log that hold a request or response body
BodyLabels == {"ImportProjectServices: Sending YAML", "Request body", "Response body"}

\* C24: with debug on, every request or response body in the log is written
\* as MaskSensitive returns it; the body handed to the server and the bytes
\* returned to the caller are as they were, not masked.
C24_LogIsMasked ==
    /\ \A i \in 1..Len(log) :
           log[i].label \in BodyLabels => log[i].text = MaskSensitive(log[i].arg)
    /\ dpc \in {"inflight", "done"} => sent = ImportBody(yamlData)
    /\ (dpc = "done" /\ dout.kind = "response" /\ dout.status < 400)
           => dret.resp = <<dout.body.bytes>>

\* what a call returns and how many requests it makes when it runs alone under
\* policy cfg from attempt a on, the transport answering with outs in turn and
\* the context ending as ce; Unfinished when outs does not carry it to its end
Unfinished == [requests |-> -1, ret |-> NoReturn]

RECURSIVE SoloRun(_, _, _, _, _, _)
SoloRun(cfg, outs, ce, a, last, n) ==
    IF ~LoopContinues(a, cfg) THEN
        IF outs = <<>> THEN [requests |-> n, ret |-> [resp |-> <<>>, err |-> last]]
        ELSE Unfinished
    ELSE IF outs = <<>> THEN Unfinished
    ELSE LET r == doRequest(Head(outs), url, a)
         IN  IF r.err = NoError THEN
                 IF Tail(outs) = <<>> THEN [requests |-> n + 1, ret |-> r]
                 ELSE Unfinished
             ELSE IF ReturnsFailure(r.err, a, cfg) THEN
                 IF Tail(outs) = <<>>
                     THEN [requests |-> n + 1, ret |-> [resp |-> <<>>, err |-> r.err]]
                     ELSE Unfinished
             ELSE IF Tail(outs) = <<>> THEN
                 IF ce # "none"
                     THEN [requests |-> n + 1,
                           ret |-> [resp |-> <<>>, err |-> ContextError(ce)]]
                     ELSE Unfinished
             ELSE SoloRun(cfg, Tail(outs), ce, a + 1, r.err, n + 1)

\* C27: of several calls running at once on one Client, each returns what it
\* would return, after as many requests as it would make, running alone with
\* the same policy snapshot, the same answers to its own attempts and the same
\* cancellation, whatever the other calls have done meanwhile.
C27_OwnHistoryDecides ==
    \A i \in CallIds :
        calls[i].pc = "done"
            => [requests |-> calls[i].requests, ret |-> calls[i].ret]
                   = SoloRun(calls[i].config, calls[i].outs, calls[i].ctxErr, 0, NoError, 0)

\* call 1 has returned after a retried attempt while call 2, which ran at the
\* same time, is still in its first attempt
C27_Witness ==
    /\ concurrent = {1, 2}
    /\ calls[1].pc = "done"
    /\ calls[1].requests = 2
    /\ calls[2].pc \in {"inflight", "wait"}
    /\ calls[2].attempt = 0

====
